---- MODULE Spec2Model ----
(***************************************************************************)
(* Tenant-aware URL generation of the central dashboard                    *)
(* (components/centraldashboard/public/components/url-utils.js).           *)
(*                                                                         *)
(* A JavaScript string is a sequence of one-character strings, indexed     *)
(* from 0 by the operators that model String.prototype methods.  A         *)
(* JavaScript value is a tagged record; the values that occur are the      *)
(* primitives a JSON configuration or a caller can supply (undefined,      *)
(* null, numbers, strings) and references to heap objects.                 *)
(***************************************************************************)
EXTENDS Integers, Sequences, FiniteSets

VARIABLES locationHostname, request, apiLinks, heap, last

vars == <<locationHostname, request, apiLinks, heap, last>>

\* ------------------------------------------------------------------------
\* Bounds of the model
\* ------------------------------------------------------------------------
\* hostnames passed to the parser have at most MaxLabels dot-separated labels
MaxLabels == 3
\* the externalLinks array of the API response has at most MaxLinks elements
MaxLinks == 2

\* ------------------------------------------------------------------------
\* JavaScript values
\* ------------------------------------------------------------------------
Undefined == [t |-> "undefined"]
Null == [t |-> "null"]
Num(n) == [t |-> "number", n |-> n]
Str(s) == [t |-> "string", s |-> s]
Ref(a) == [t |-> "object", a |-> a]

IsString(v) == v.t = "string"

\* ToBoolean: undefined, null, 0 and '' are falsy; objects are truthy
Truthy(v) ==
  CASE v.t = "undefined" -> FALSE
    [] v.t = "null" -> FALSE
    [] v.t = "number" -> v.n # 0
    [] v.t = "string" -> v.s # <<>>
    [] OTHER -> TRUE

\* a || b
LogicalOrSwapped(a, b) == IF Truthy(b) THEN b ELSE a
LogicalOr(a, b) == IF Truthy(a) THEN a ELSE b

RECURSIVE Digits(_)
Digits(n) ==
  IF n < 10 THEN <<SubSeq(<<"0","1","2","3","4","5","6","7","8","9">>, n + 1, n + 1)[1]>>
  ELSE Digits(n \div 10) \o Digits(n % 10)

\* ToString, as applied by a template literal and by String.prototype.replace
\* to a replacement value that is not a function
ToString(v) ==
  CASE v.t = "string" -> v.s
    [] v.t = "number" -> Digits(v.n)
    [] v.t = "null" -> <<"n","u","l","l">>
    [] v.t = "undefined" -> <<"u","n","d","e","f","i","n","e","d">>
    [] OTHER -> <<"[","o","b","j","e","c","t"," ","O","b","j","e","c","t","]">>

\* ------------------------------------------------------------------------
\* String.prototype methods
\* ------------------------------------------------------------------------
LowerCase == <<"a","b","c","d","e","f","g","h","i","j","k","l","m","n","o","p","q","r","s","t","u","v","w","x","y","z">>
UpperCase == <<"A","B","C","D","E","F","G","H","I","J","K","L","M","N","O","P","Q","R","S","T","U","V","W","X","Y","Z">>

toUpperCaseNoop(s) == s
toUpperCase(s) ==
  [i \in 1..Len(s) |->
     IF \E k \in 1..26 : LowerCase[k] = s[i]
     THEN UpperCase[CHOOSE k \in 1..26 : LowerCase[k] = s[i]]
     ELSE s[i]]

\* s.substring(start, end), 0 <= start <= end <= s.length
substring(s, start, end) == SubSeq(s, start + 1, end)

MatchesAt(s, pat, i) ==
  /\ i + Len(pat) <= Len(s)
  /\ SubSeq(s, i + 1, i + Len(pat)) = pat

\* s.indexOf(pat, from): the least index >= from at which pat occurs, or -1
indexOfFrom(s, pat, from) ==
  IF \E i \in from..(Len(s) - Len(pat)) : MatchesAt(s, pat, i)
  THEN CHOOSE i \in from..(Len(s) - Len(pat)) :
         /\ MatchesAt(s, pat, i)
         /\ \A j \in from..(i - 1) : ~MatchesAt(s, pat, j)
  ELSE -1

lastIndexOf(s, pat) ==
  IF \E i \in 0..(Len(s) - Len(pat)) : MatchesAt(s, pat, i)
  THEN CHOOSE i \in 0..(Len(s) - Len(pat)) :
         /\ MatchesAt(s, pat, i)
         /\ \A j \in (i + 1)..(Len(s) - Len(pat)) : ~MatchesAt(s, pat, j)
  ELSE -1
indexOf(s, pat) == indexOfFrom(s, pat, 0)

\* s.split(sep) for a one-character separator: an array of Len >= 1
RECURSIVE split(_, _)
split(s, sep) ==
  LET i == indexOf(s, sep)
  IN IF i = -1 THEN <<s>>
     ELSE <<substring(s, 0, i)>> \o split(substring(s, i + Len(sep), Len(s)), sep)

\* parts.slice(begin)
slice(parts, begin) == SubSeq(parts, begin + 1, Len(parts))

\* parts.join(sep)
RECURSIVE join(_, _)
join(parts, sep) ==
  IF Len(parts) = 0 THEN <<>>
  ELSE IF Len(parts) = 1 THEN parts[1]
  ELSE parts[1] \o sep \o join(Tail(parts), sep)

\* GetSubstitution of ECMAScript for a pattern without capture groups:
\* in the replacement text $$ stands for $, $& for the matched text,
\* $` for the text before the match and $' for the text after it;
\* every other $ is literal.
RECURSIVE GetSubstitution(_, _, _, _)
GetSubstitution(matched, str, position, replacement) ==
  IF replacement = <<>> THEN <<>>
  ELSE IF replacement[1] = "$" /\ Len(replacement) >= 2
  THEN LET c == replacement[2]
           rest == SubSeq(replacement, 3, Len(replacement))
       IN CASE c = "$" -> <<"$">> \o GetSubstitution(matched, str, position, rest)
            [] c = "&" -> matched \o GetSubstitution(matched, str, position, rest)
            [] c = "`" -> substring(str, 0, position)
                            \o GetSubstitution(matched, str, position, rest)
            [] c = "'" -> substring(str, position + Len(matched), Len(str))
                            \o GetSubstitution(matched, str, position, rest)
            [] OTHER -> <<"$">> \o GetSubstitution(matched, str, position,
                                                   Tail(replacement))
  ELSE <<replacement[1]>> \o GetSubstitution(matched, str, position,
                                             Tail(replacement))

\* str.replace(/token/g, replacement) for a regular expression that matches
\* the literal text token: every match, left to right, without overlap and
\* without rescanning the inserted text
RECURSIVE replaceFrom(_, _, _, _)
replaceFrom(str, token, replacement, from) ==
  LET p == indexOfFrom(str, token, from)
  IN IF p = -1 THEN substring(str, from, Len(str))
     ELSE substring(str, from, p)
            \o GetSubstitution(token, str, p, replacement)
            \o replaceFrom(str, token, replacement, p + Len(token))

replace(str, token, replacement) == replaceFrom(str, token, replacement, 0)

\* ------------------------------------------------------------------------
\* Configuration
\* ------------------------------------------------------------------------
\* SERVICE_CONFIG in the order of its keys (the order of Object.keys)
SERVICE_CONFIG_DuplicateName ==
  << [key |-> <<"M","L","F","L","O","W">>, name |-> <<"m","l","f","l","o","w">>, format |-> "tenant-prefix",
      path |-> <<"/">>],
     [key |-> <<"O","P","T","I","M","I","Z","E","R">>, name |-> <<"o","p","t","i","m","i","z","e","r">>, format |-> "tenant-subdomain",
      path |-> <<"/","p","l","a","t","f","o","r","m","-","a","p","p","/","a","p","p","/","o","p","t","i","m","i","z","e","r">>],
     [key |-> <<"V","A","U","L","T">>, name |-> <<"v","a","u","l","t">>, format |-> "tenant-subdomain",
      path |-> <<"/","v","a","u","l","t","-","f","i","l","e","b","r","o","w","s","e","r","/","f","i","l","e","s","/">>],
     [key |-> <<"S","I","M","_","W","O","R","K","B","E","N","C","H">>, name |-> <<"s","i","m","-","w","o","r","k","b","e","n","c","h">>,
      format |-> "tenant-subdomain", path |-> <<"/","s","i","m","l","a","b","-","r","e","a","c","t","-","u","i","/","p","r","o","j","e","c","t","s">>],
     [key |-> <<"P","L","A","T","F","O","R","M","_","D","O","C","S">>, name |-> <<"p","l","a","t","f","o","r","m","-","d","o","c","s">>,
      format |-> "tenant-subdomain", path |-> <<"/","d","o","c","u","m","e","n","t","a","t","i","o","n","/">>],
     [key |-> <<"A","I","_","W","O","R","K","B","E","N","C","H","_","D","O","C","S">>, name |-> <<"p","l","a","t","f","o","r","m","-","d","o","c","s">>,
      format |-> "tenant-subdomain",
      path |-> <<"/","p","l","a","t","f","o","r","m","-","d","o","c","u","m","e","n","t","a","t","i","o","n","/","a","i","_","w","o","r","k","b","e","n","c","h","/","i","n","d","e","x",".","h","t","m","l">>] >>
SERVICE_CONFIG ==
  << [key |-> <<"M","L","F","L","O","W">>, name |-> <<"m","l","f","l","o","w">>, format |-> "tenant-prefix",
      path |-> <<"/">>],
     [key |-> <<"O","P","T","I","M","I","Z","E","R">>, name |-> <<"o","p","t","i","m","i","z","e","r">>, format |-> "tenant-subdomain",
      path |-> <<"/","p","l","a","t","f","o","r","m","-","a","p","p","/","a","p","p","/","o","p","t","i","m","i","z","e","r">>],
     [key |-> <<"V","A","U","L","T">>, name |-> <<"v","a","u","l","t">>, format |-> "tenant-subdomain",
      path |-> <<"/","v","a","u","l","t","-","f","i","l","e","b","r","o","w","s","e","r","/","f","i","l","e","s","/">>],
     [key |-> <<"S","I","M","_","W","O","R","K","B","E","N","C","H">>, name |-> <<"s","i","m","-","w","o","r","k","b","e","n","c","h">>,
      format |-> "tenant-subdomain", path |-> <<"/","s","i","m","l","a","b","-","r","e","a","c","t","-","u","i","/","p","r","o","j","e","c","t","s">>],
     [key |-> <<"P","L","A","T","F","O","R","M","_","D","O","C","S">>, name |-> <<"p","l","a","t","f","o","r","m","-","d","o","c","s">>,
      format |-> "tenant-subdomain", path |-> <<"/","d","o","c","u","m","e","n","t","a","t","i","o","n","/">>],
     [key |-> <<"A","I","_","W","O","R","K","B","E","N","C","H","_","D","O","C","S">>, name |-> <<"a","i","-","w","o","r","k","b","e","n","c","h">>,
      format |-> "tenant-subdomain",
      path |-> <<"/","p","l","a","t","f","o","r","m","-","d","o","c","u","m","e","n","t","a","t","i","o","n","/","a","i","_","w","o","r","k","b","e","n","c","h","/","i","n","d","e","x",".","h","t","m","l">>] >>

\* SERVICE_CONFIG[key] is defined (no inherited property of an object
\* literal has a name free of lower-case letters, so only own keys match an
\* upper-cased name)
HasService(key) == \E i \in 1..Len(SERVICE_CONFIG) : SERVICE_CONFIG[i].key = key
ServiceOf(key) ==
  SERVICE_CONFIG[CHOOSE i \in 1..Len(SERVICE_CONFIG) : SERVICE_CONFIG[i].key = key]

DEFAULT_DOMAIN == <<"c","l","o","u","d","-","t","m","p",".","p","h","y","s","i","c","s","x",".","a","i">>

\* the outcome of a call: the value returned, whether it threw instead,
\* whether it read window.location.hostname, whether it wrote a warning
Return(v, read, warned) ==
  [result |-> v, threw |-> FALSE, readHost |-> read, warned |-> warned]
Throw(read) ==
  [result |-> Undefined, threw |-> TRUE, readHost |-> read, warned |-> FALSE]

\* ------------------------------------------------------------------------
\* Hostname parser
\* ------------------------------------------------------------------------
KUBEFLOW == <<"-","k","u","b","e","f","l","o","w">>

extractTenantFromHostname_LastIndex(hostname) ==
  IF ~Truthy(hostname) \/ ~IsString(hostname) THEN Null
  ELSE LET parts == split(hostname.s, <<".">>)
       IN IF Len(parts) < 2 THEN Null
          ELSE LET tenant == parts[1]
                   domain == join(slice(parts, 1), <<".">>)
               IN IF tenant = <<>> \/ domain = <<>> THEN Null
                  ELSE LET kubeflowIndex == lastIndexOf(tenant, KUBEFLOW)
                       IN IF kubeflowIndex # -1
                          THEN Str(substring(tenant, 0, kubeflowIndex))
                          ELSE Str(tenant)
extractTenantFromHostname(hostname) ==
  IF ~Truthy(hostname) \/ ~IsString(hostname) THEN Null
  ELSE LET parts == split(hostname.s, <<".">>)
       IN IF Len(parts) < 2 THEN Null
          ELSE LET tenant == parts[1]
                   domain == join(slice(parts, 1), <<".">>)
               IN IF tenant = <<>> \/ domain = <<>> THEN Null
                  ELSE LET kubeflowIndex == indexOf(tenant, KUBEFLOW)
                       IN IF kubeflowIndex # -1
                          THEN Str(substring(tenant, 0, kubeflowIndex))
                          ELSE Str(tenant)

extractDomainFromHostname_LastDot(hostname) ==
  IF ~Truthy(hostname) \/ ~IsString(hostname) THEN Str(DEFAULT_DOMAIN)
  ELSE LET dotIndex == lastIndexOf(hostname.s, <<".">>)
       IN IF dotIndex = -1 THEN Str(DEFAULT_DOMAIN)
          ELSE Str(substring(hostname.s, dotIndex + 1, Len(hostname.s)))
extractDomainFromHostname(hostname) ==
  IF ~Truthy(hostname) \/ ~IsString(hostname) THEN Str(DEFAULT_DOMAIN)
  ELSE LET dotIndex == indexOf(hostname.s, <<".">>)
       IN IF dotIndex = -1 THEN Str(DEFAULT_DOMAIN)
          ELSE Str(substring(hostname.s, dotIndex + 1, Len(hostname.s)))

\* ------------------------------------------------------------------------
\* Current-context accessors
\* ------------------------------------------------------------------------
getCurrentTenant == extractTenantFromHostname(Str(locationHostname))

getCurrentDomain == extractDomainFromHostname(Str(locationHostname))

\* ------------------------------------------------------------------------
\* Service URL generator
\* ------------------------------------------------------------------------
\* a parameter declared "domain = null": undefined becomes null
DefaultNull(v) == IF v = Undefined THEN Null ELSE v

generateServiceUrl(serviceName, tenant, domainArg) ==
  LET domain == DefaultNull(domainArg)
  IN IF ~Truthy(tenant) \/ ~Truthy(serviceName) THEN Return(Null, FALSE, FALSE)
     \* serviceName.toUpperCase is not a function: TypeError
     ELSE IF ~IsString(serviceName) THEN Throw(FALSE)
     ELSE LET key == toUpperCase(serviceName.s)
          IN IF ~HasService(key) THEN Return(Null, FALSE, TRUE)
             ELSE LET serviceConfig == ServiceOf(key)
                      read == ~Truthy(domain)
                      targetDomain ==
                        LogicalOr(domain,
                                  extractDomainFromHostname(Str(locationHostname)))
                  IN IF serviceConfig.format = "tenant-prefix"
                     THEN Return(Str(<<"h","t","t","p","s",":","/","/">> \o ToString(tenant) \o <<"-">>
                                       \o serviceConfig.name \o <<".">>
                                       \o ToString(targetDomain)
                                       \o serviceConfig.path), read, FALSE)
                     ELSE IF serviceConfig.format = "tenant-subdomain"
                     THEN Return(Str(<<"h","t","t","p","s",":","/","/">> \o ToString(tenant) \o <<".">>
                                       \o ToString(targetDomain)
                                       \o serviceConfig.path), read, FALSE)
                     ELSE Return(Null, read, TRUE)

\* the urls object after the forEach callback has run for the first n keys
RECURSIVE urlsAfter(_, _, _)
urlsAfter(n, tenant, domain) ==
  IF n = 0 THEN [k \in {} |-> Null]
  ELSE LET urls == urlsAfter(n - 1, tenant, domain)
           serviceKey == SERVICE_CONFIG[n].key
           serviceName == SERVICE_CONFIG[n].name
       IN [k \in DOMAIN urls \cup {serviceName} |->
             IF k = serviceName
             THEN generateServiceUrl(Str(serviceKey), tenant, domain).result
             ELSE urls[k]]

generateAllServiceUrls(tenant, domainArg) ==
  LET domain == DefaultNull(domainArg)
      calls == {generateServiceUrl(Str(SERVICE_CONFIG[i].key), tenant, domain) :
                  i \in 1..Len(SERVICE_CONFIG)}
  IN Return([t |-> "urls", m |-> urlsAfter(Len(SERVICE_CONFIG), tenant, domain)],
            \E c \in calls : c.readHost,
            \E c \in calls : c.warned)

\* ------------------------------------------------------------------------
\* Link placeholder substitution
\* ------------------------------------------------------------------------
TENANT_TOKEN == <<"$","{","T","E","N","A","N","T","}">>
DOMAIN_TOKEN == <<"$","{","D","O","M","A","I","N","}">>

processExternalLink_EmptyOnMissing(link, tenant, domainArg) ==
  LET domain == DefaultNull(domainArg)
  IN IF ~Truthy(link) \/ ~Truthy(tenant) THEN Return(Str(<<>>), FALSE, FALSE)
     ELSE LET targetDomain == LogicalOr(domain, getCurrentDomain)
          IN IF ~IsString(link) THEN Throw(~Truthy(domain))
             ELSE Return(Str(replace(replace(link.s, TENANT_TOKEN, ToString(tenant)),
                                     DOMAIN_TOKEN, ToString(targetDomain))),
                         ~Truthy(domain), FALSE)
processExternalLink(link, tenant, domainArg) ==
  LET domain == DefaultNull(domainArg)
  IN IF ~Truthy(link) \/ ~Truthy(tenant) THEN Return(link, FALSE, FALSE)
     ELSE LET targetDomain == LogicalOr(domain, getCurrentDomain)
          \* link.replace is not a function: TypeError
          IN IF ~IsString(link) THEN Throw(~Truthy(domain))
             ELSE Return(Str(replace(replace(link.s, TENANT_TOKEN, ToString(tenant)),
                                     DOMAIN_TOKEN, ToString(targetDomain))),
                         ~Truthy(domain), FALSE)

\* The heap maps an address to an object [kind |-> "object", fields |-> f],
\* f a function from property names to values, or to an array
\* [kind |-> "array", elems |-> sequence of values].
IsArray(h, v) == v.t = "object" /\ v.a \in DOMAIN h /\ h[v.a].kind = "array"

\* obj.name, undefined when the object has no such property
Get(h, obj, name) ==
  IF name \in DOMAIN h[obj.a].fields THEN h[obj.a].fields[name] ELSE Undefined

Max(S) == CHOOSE x \in S : \A y \in S : y <= x
Fresh(h) == IF DOMAIN h = {} THEN 1 ELSE Max(DOMAIN h) + 1
Alloc(h, a, obj) == [x \in DOMAIN h \cup {a} |-> IF x = a THEN obj ELSE h[x]]

\* the callback of externalLinks.map: Object.assign({}, link) copies the
\* own properties of link into a new object, whose link property is then set
mapCallback_InPlace(h, link, tenant, domain) ==
  LET r == processExternalLink(Get(h, link, "link"), tenant, domain)
      source == h[link.a].fields
      processedLink == [k \in DOMAIN source \cup {"link"} |->
                          IF k = "link" THEN r.result ELSE source[k]]
  IN [heap |-> Alloc(h, link.a, [kind |-> "object", fields |-> processedLink]),
      value |-> link, readHost |-> r.readHost, threw |-> r.threw]
mapCallback(h, link, tenant, domain) ==
  LET r == processExternalLink(Get(h, link, "link"), tenant, domain)
      source == h[link.a].fields
      processedLink == [k \in DOMAIN source \cup {"link"} |->
                          IF k = "link" THEN r.result ELSE source[k]]
      a == Fresh(h)
  IN [heap |-> Alloc(h, a, [kind |-> "object", fields |-> processedLink]),
      value |-> Ref(a), readHost |-> r.readHost, threw |-> r.threw]

\* externalLinks.map after the first n elements: the heap, the elements of
\* the new array so far, and whether a callback read the hostname or threw
RECURSIVE mapAfter(_, _, _, _, _)
mapAfter(h, elems, n, tenant, domain) ==
  IF n = 0 THEN [heap |-> h, out |-> <<>>, readHost |-> FALSE, threw |-> FALSE]
  ELSE LET before == mapAfter(h, elems, n - 1, tenant, domain)
       IN IF before.threw THEN before
          ELSE LET step == mapCallback(before.heap, elems[n], tenant, domain)
               IN [heap |-> step.heap,
                   out |-> Append(before.out, step.value),
                   readHost |-> before.readHost \/ step.readHost,
                   threw |-> step.threw]

\* returns the outcome together with the heap after the call
processExternalLinks(h, externalLinks, tenant, domainArg) ==
  LET domain == DefaultNull(domainArg)
  IN IF ~IsArray(h, externalLinks) \/ ~Truthy(tenant)
     THEN [heap |-> h, outcome |-> Return(externalLinks, FALSE, FALSE)]
     ELSE LET elems == h[externalLinks.a].elems
              mapped == mapAfter(h, elems, Len(elems), tenant, domain)
              a == Fresh(mapped.heap)
          IN IF mapped.threw
             THEN [heap |-> mapped.heap, outcome |-> Throw(mapped.readHost)]
             ELSE [heap |-> Alloc(mapped.heap, a,
                                  [kind |-> "array", elems |-> mapped.out]),
                   outcome |-> Return(Ref(a), mapped.readHost, FALSE)]

\* ------------------------------------------------------------------------
\* Inputs
\* ------------------------------------------------------------------------
\* window.location.hostname of the page: always a string
AmbientHostnames ==
  { <<"r","a","m","s","a","y",".","c","l","o","u","d","-","t","m","p",".","p","h","y","s","i","c","s","x",".","a","i">>, <<"d","e","m","o","-","d","e","v","-","k","u","b","e","f","l","o","w",".","e","x","a","m","p","l","e",".","c","o","m">>,
    <<"-","k","u","b","e","f","l","o","w",".","e","x","a","m","p","l","e",".","c","o","m">>, <<"l","o","c","a","l","h","o","s","t">> }

Labels ==
  { <<>>, <<"r","a","m","s","a","y">>, <<"d","e","m","o","-","d","e","v","-","k","u","b","e","f","l","o","w">>, <<"-","k","u","b","e","f","l","o","w">>, <<"a","-","k","u","b","e","f","l","o","w","-","k","u","b","e","f","l","o","w">> }

LabelSeqs == UNION {[1..n -> Labels] : n \in 1..MaxLabels}

HostnameArgs ==
  {Str(join(ls, <<".">>)) : ls \in LabelSeqs} \cup {Undefined, Null, Num(42)}

ServiceNames ==
  { Undefined, Null, Str(<<>>), Num(42),
    Str(<<"M","L","F","L","O","W">>), Str(<<"m","l","f","l","o","w">>), Str(<<"M","l","F","l","o","w">>),
    Str(<<"O","P","T","I","M","I","Z","E","R">>), Str(<<"o","p","t","i","m","i","z","e","r">>), Str(<<"V","A","U","L","T">>),
    Str(<<"s","i","m","_","w","o","r","k","b","e","n","c","h">>), Str(<<"P","L","A","T","F","O","R","M","_","D","O","C","S">>), Str(<<"a","i","_","w","o","r","k","b","e","n","c","h","_","d","o","c","s">>),
    Str(<<"s","i","m","-","w","o","r","k","b","e","n","c","h">>), Str(<<"U","N","K","N","O","W","N">>) }

Tenants ==
  { Undefined, Null, Str(<<>>), Num(0), Num(42),
    Str(<<"r","a","m","s","a","y">>), Str(<<"d","e","m","o","-","d","e","v">>), Str(<<"a","$","$","b">>), Str(<<"$","&">>) }

Domains ==
  { Undefined, Null, Str(<<>>), Str(<<"c","l","o","u","d","-","t","m","p",".","p","h","y","s","i","c","s","x",".","a","i">>), Str(<<"d","$","'">>) }

Links ==
  { Undefined, Null, Str(<<>>), Num(42),
    Str(<<"h","t","t","p","s",":","/","/","$","{","T","E","N","A","N","T","}","-","m","l","f","l","o","w",".","$","{","D","O","M","A","I","N","}","/">>),
    Str(<<"$","{","T","E","N","A","N","T","}","$","{","T","E","N","A","N","T","}">>), Str(<<"$","{","D","O","M","A","I","N","}","/","$","{","T","E","N","A","N","T","}">>),
    Str(<<"/","d","o","c","s","/","$","{","t","e","n","a","n","t","}">>), Str(<<"h","t","t","p","s",":","/","/","e","x","a","m","p","l","e",".","c","o","m","/">>) }

\* the element objects the dashboard configuration endpoint can deliver
LinkObjects ==
  { [f \in {"link", "text"} |->
       IF f = "link" THEN Str(<<"h","t","t","p","s",":","/","/","$","{","T","E","N","A","N","T","}","-","m","l","f","l","o","w",".","$","{","D","O","M","A","I","N","}","/">>)
       ELSE Str(<<"M","L","f","l","o","w">>)],
    [f \in {"link"} |-> Str(<<"$","{","T","E","N","A","N","T","}">>)],
    [f \in {"text"} |-> Str(<<"D","o","c","s">>)] }

ApiResponses == UNION {[1..n -> LinkObjects] : n \in 0..MaxLinks}

\* the heap after the response has been parsed: element i at address i, the
\* externalLinks array after them
LinksAddr(links) == Len(links) + 1
InputHeap(links) ==
  [a \in 1..LinksAddr(links) |->
     IF a <= Len(links) THEN [kind |-> "object", fields |-> links[a]]
     ELSE [kind |-> "array", elems |-> [i \in 1..Len(links) |-> Ref(i)]]]

\* the objects of the response; what an earlier call allocated is garbage
Live(h) == [a \in 1..LinksAddr(apiLinks) |-> h[a]]

ListArgs(links) ==
  {Ref(LinksAddr(links)), Ref(1), Undefined, Null, Str(<<"l","i","n","k","s">>)}

\* the value a result denotes: an array by its elements' properties
Deep(h, v) ==
  IF IsArray(h, v)
  THEN [t |-> "array", elems |-> [i \in 1..Len(h[v.a].elems) |->
                                     h[h[v.a].elems[i].a].fields]]
  ELSE v

\* ------------------------------------------------------------------------
\* State machine: a caller holds the arguments of one call (request) and
\* makes that call, again and again, while the page may move between hosts.
\*   locationHostname   window.location.hostname
\*   request            the operation called and its arguments
\*   apiLinks           the externalLinks of the configuration response
\*   heap               the objects of the response and of the last call
\*   last               the outcome of the last call
\* ------------------------------------------------------------------------
Request(op, args) == [op |-> op, args |-> args]

Requests ==
  {Request("extractTenantFromHostname", <<h>>) : h \in HostnameArgs}
  \cup {Request("extractDomainFromHostname", <<h>>) : h \in HostnameArgs}
  \cup {Request("getCurrentTenant", <<>>), Request("getCurrentDomain", <<>>)}
  \cup {Request("generateServiceUrl", <<s, t, d>>) :
          s \in ServiceNames, t \in Tenants, d \in Domains}
  \cup {Request("generateAllServiceUrls", <<t, d>>) : t \in Tenants, d \in Domains}
  \cup {Request("processExternalLink", <<l, t, d>>) :
          l \in Links, t \in Tenants, d \in Domains}

LinksPresent(links) ==
  {Request("processExternalLinks", <<l, t, d>>) :
     l \in ListArgs(links), t \in Tenants, d \in Domains}

Outcome(outcome, h) ==
  [called |-> TRUE, host |-> locationHostname,
   result |-> outcome.result, threw |-> outcome.threw,
   readHost |-> outcome.readHost, warned |-> outcome.warned,
   value |-> Deep(h, outcome.result)]

NoCall ==
  [called |-> FALSE, host |-> <<>>, result |-> Undefined, threw |-> FALSE,
   readHost |-> FALSE, warned |-> FALSE, value |-> Undefined]

Init ==
  /\ locationHostname \in AmbientHostnames
  /\ \/ /\ apiLinks = <<>>
        /\ request \in Requests
     \/ /\ apiLinks \in ApiResponses
        /\ request \in LinksPresent(apiLinks)
  /\ heap = InputHeap(apiLinks)
  /\ last = NoCall

\* the page moves to another host
Navigate ==
  /\ \E h \in AmbientHostnames \ {locationHostname} : locationHostname' = h
  /\ UNCHANGED <<request, apiLinks, heap, last>>

ExtractTenantFromHostname ==
  /\ request.op = "extractTenantFromHostname"
  /\ last' = Outcome(Return(extractTenantFromHostname(request.args[1]),
                            FALSE, FALSE), heap)
  /\ UNCHANGED <<locationHostname, request, apiLinks, heap>>

ExtractDomainFromHostname ==
  /\ request.op = "extractDomainFromHostname"
  /\ last' = Outcome(Return(extractDomainFromHostname(request.args[1]),
                            FALSE, FALSE), heap)
  /\ UNCHANGED <<locationHostname, request, apiLinks, heap>>

GetCurrentTenant ==
  /\ request.op = "getCurrentTenant"
  /\ last' = Outcome(Return(getCurrentTenant, TRUE, FALSE), heap)
  /\ UNCHANGED <<locationHostname, request, apiLinks, heap>>

GetCurrentDomain ==
  /\ request.op = "getCurrentDomain"
  /\ last' = Outcome(Return(getCurrentDomain, TRUE, FALSE), heap)
  /\ UNCHANGED <<locationHostname, request, apiLinks, heap>>

GenerateServiceUrl ==
  /\ request.op = "generateServiceUrl"
  /\ last' = Outcome(generateServiceUrl(request.args[1], request.args[2],
                                        request.args[3]), heap)
  /\ UNCHANGED <<locationHostname, request, apiLinks, heap>>

GenerateAllServiceUrls ==
  /\ request.op = "generateAllServiceUrls"
  /\ last' = Outcome(generateAllServiceUrls(request.args[1], request.args[2]), heap)
  /\ UNCHANGED <<locationHostname, request, apiLinks, heap>>

ProcessExternalLink ==
  /\ request.op = "processExternalLink"
  /\ last' = Outcome(processExternalLink(request.args[1], request.args[2],
                                         request.args[3]), heap)
  /\ UNCHANGED <<locationHostname, request, apiLinks, heap>>

ProcessExternalLinks ==
  /\ request.op = "processExternalLinks"
  /\ LET r == processExternalLinks(Live(heap), request.args[1], request.args[2],
                                   request.args[3])
     IN /\ heap' = r.heap
        /\ last' = Outcome(r.outcome, r.heap)
  /\ UNCHANGED <<locationHostname, request, apiLinks>>

Next ==
  \/ Navigate
  \/ ExtractTenantFromHostname
  \/ ExtractDomainFromHostname
  \/ GetCurrentTenant
  \/ GetCurrentDomain
  \/ GenerateServiceUrl
  \/ GenerateAllServiceUrls
  \/ ProcessExternalLink
  \/ ProcessExternalLinks

Spec == Init /\ [][Next]_vars

\* ------------------------------------------------------------------------
\* Properties
\* ------------------------------------------------------------------------
Called(op) == last.called /\ request.op = op
\* the call has just been made: the page is still on the host it ran under
JustCalled(op) == Called(op) /\ last.host = locationHostname

NonEmptyString(v) == IsString(v) /\ v.s # <<>>

\* a and b are equal up to the case of their ASCII letters
SameLetter(c, d) ==
  \/ c = d
  \/ \E k \in 1..26 : {c, d} = {LowerCase[k], UpperCase[k]}
DifferOnlyInCase(a, b) ==
  /\ Len(a) = Len(b)
  /\ \A i \in 1..Len(a) : SameLetter(a[i], b[i])

\* the position (from 1) of the first occurrence of pat in s, 0 if none
Occurs(s, pat, i) == i + Len(pat) - 1 <= Len(s) /\ SubSeq(s, i, i + Len(pat) - 1) = pat
FirstOccurrence(s, pat) ==
  IF \E i \in 1..Len(s) : Occurs(s, pat, i)
  THEN CHOOSE i \in 1..Len(s) :
         Occurs(s, pat, i) /\ \A j \in 1..(i - 1) : ~Occurs(s, pat, j)
  ELSE 0

\* s with every occurrence of token, left to right, replaced by text as it is
RECURSIVE ReplacedLiterally(_, _, _)
ReplacedLiterally(s, token, text) ==
  LET i == FirstOccurrence(s, token)
  IN IF i = 0 THEN s
     ELSE SubSeq(s, 1, i - 1) \o text
            \o ReplacedLiterally(SubSeq(s, i + Len(token), Len(s)), token, text)

\* C1: generateServiceUrl, for a truthy tenant, a non-empty domain and a
\* serviceId that equals a key of the service table up to letter case,
\* returns https://tenant-name.domain/path for a tenant-prefix entry and
\* https://tenant.domain/path for a tenant-subdomain entry; serviceIds that
\* differ only in letter case give the same result.
C1_ServiceUrlShape ==
  JustCalled("generateServiceUrl") =>
    LET serviceId == request.args[1]
        tenant == request.args[2]
        domain == request.args[3]
    IN /\ (Truthy(tenant) /\ NonEmptyString(domain) /\ IsString(serviceId)) =>
            \A i \in 1..Len(SERVICE_CONFIG) :
              DifferOnlyInCase(serviceId.s, SERVICE_CONFIG[i].key) =>
                LET entry == SERVICE_CONFIG[i]
                IN /\ ~last.threw
                   /\ entry.format = "tenant-prefix" =>
                        last.result = Str(<<"h","t","t","p","s",":","/","/">> \o ToString(tenant) \o <<"-">>
                                            \o entry.name \o <<".">> \o domain.s
                                            \o entry.path)
                   /\ entry.format = "tenant-subdomain" =>
                        last.result = Str(<<"h","t","t","p","s",":","/","/">> \o ToString(tenant) \o <<".">>
                                            \o domain.s \o entry.path)
                   /\ entry.format \in {"tenant-prefix", "tenant-subdomain"}
       /\ IsString(serviceId) =>
            \A other \in ServiceNames :
              (IsString(other) /\ DifferOnlyInCase(other.s, serviceId.s)) =>
                generateServiceUrl(other, tenant, domain).result = last.result

C1_Witness ==
  /\ Called("generateServiceUrl")
  /\ request.args = <<Str(<<"o","p","t","i","m","i","z","e","r">>), Str(<<"d","e","m","o","-","d","e","v">>),
                      Str(<<"c","l","o","u","d","-","t","m","p",".","p","h","y","s","i","c","s","x",".","a","i">>)>>
  /\ last.result =
       Str(<<"h","t","t","p","s",":","/","/","d","e","m","o","-","d","e","v",".","c","l","o","u","d","-","t","m","p",".","p","h","y","s","i","c","s","x",".","a","i","/","p","l","a","t","f","o","r","m","-","a","p","p","/","a","p","p","/","o","p","t","i","m","i","z","e","r">>)

\* C2: generateServiceUrl never throws: it returns null whenever tenant or
\* serviceId is falsy or serviceId matches no entry of the service table,
\* and a URL string otherwise.
C2_NeverThrows ==
  Called("generateServiceUrl") =>
    LET serviceId == request.args[1]
        tenant == request.args[2]
        matches == /\ IsString(serviceId)
                   /\ \E i \in 1..Len(SERVICE_CONFIG) :
                        DifferOnlyInCase(serviceId.s, SERVICE_CONFIG[i].key)
    IN /\ ~last.threw
       /\ IF ~Truthy(tenant) \/ ~Truthy(serviceId) \/ ~matches
          THEN last.result = Null
          ELSE IsString(last.result)

\* the first label of a hostname that contains a dot, and what follows the dot
FirstLabel(s) == SubSeq(s, 1, FirstOccurrence(s, <<".">>) - 1)
AfterFirstDot(s) == SubSeq(s, FirstOccurrence(s, <<".">>) + 1, Len(s))

\* C3: extractTenantFromHostname returns null when hostname is not a
\* non-empty string, has no dot, or has an empty first label or an empty
\* remainder after the first dot; otherwise it returns the first label, cut
\* at the start of the first occurrence of -kubeflow when there is one.
C3_TenantOfHostname ==
  Called("extractTenantFromHostname") =>
    LET hostname == request.args[1]
    IN /\ ~last.threw
       /\ IF \/ ~NonEmptyString(hostname)
             \/ FirstOccurrence(hostname.s, <<".">>) = 0
             \/ FirstLabel(hostname.s) = <<>>
             \/ AfterFirstDot(hostname.s) = <<>>
          THEN last.result = Null
          ELSE LET label == FirstLabel(hostname.s)
                   k == FirstOccurrence(label, KUBEFLOW)
               IN last.result = Str(IF k = 0 THEN label ELSE SubSeq(label, 1, k - 1))

C3_Witness ==
  /\ Called("extractTenantFromHostname")
  /\ request.args = <<Str(<<"a","-","k","u","b","e","f","l","o","w","-","k","u","b","e","f","l","o","w",".","r","a","m","s","a","y">>)>>
  /\ last.result = Str(<<"a">>)

\* C4: a tenant produced by the hostname parser is never empty:
\* extractTenantFromHostname and getCurrentTenant return null or a
\* non-empty string.
C4_TenantNeverEmpty ==
  (Called("extractTenantFromHostname") \/ Called("getCurrentTenant")) =>
    (last.result = Null \/ NonEmptyString(last.result))

\* C5: processExternalLink, for a string link, a truthy tenant and a
\* non-empty domain, returns link with every ${TENANT} replaced by exactly
\* the tenant value and then every ${DOMAIN} by exactly the domain value,
\* whatever characters the two values contain.
C5_LiteralSubstitution ==
  Called("processExternalLink") =>
    LET link == request.args[1]
        tenant == request.args[2]
        domain == request.args[3]
    IN (IsString(link) /\ Truthy(tenant) /\ NonEmptyString(domain)) =>
         /\ ~last.threw
         /\ last.result =
              Str(ReplacedLiterally(
                    ReplacedLiterally(link.s, TENANT_TOKEN, ToString(tenant)),
                    DOMAIN_TOKEN, domain.s))

PropertyOf(fields, name) == IF name \in DOMAIN fields THEN fields[name] ELSE Undefined

\* C6: processExternalLinks, for an array and a truthy tenant, returns a new
\* array of the same length and order whose element i is a new object with
\* the properties of list[i], except that its link is
\* processExternalLink(list[i].link, tenant, domain); the input array and
\* its elements are unmodified and no output element is an input element.
C6_CopyOnWrite ==
  JustCalled("processExternalLinks") =>
    LET list == request.args[1]
        tenant == request.args[2]
        domain == request.args[3]
        input == InputHeap(apiLinks)
    IN (IsArray(input, list) /\ Truthy(tenant)) =>
         /\ ~last.threw
         /\ last.result.t = "object"
         /\ last.result.a \notin DOMAIN input
         /\ heap[last.result.a].kind = "array"
         /\ \A a \in DOMAIN input : heap[a] = input[a]
         /\ LET out == heap[last.result.a].elems
            IN /\ Len(out) = Len(apiLinks)
               /\ \A i \in 1..Len(out) :
                    /\ out[i].t = "object"
                    /\ out[i].a \notin DOMAIN input
                    /\ heap[out[i].a].kind = "object"
                    /\ LET copy == heap[out[i].a].fields
                       IN /\ \A f \in (DOMAIN copy \cup DOMAIN apiLinks[i]) \ {"link"} :
                               PropertyOf(copy, f) = PropertyOf(apiLinks[i], f)
                          /\ PropertyOf(copy, "link") =
                               processExternalLink(PropertyOf(apiLinks[i], "link"),
                                                   tenant, domain).result

C6_Witness ==
  /\ Called("processExternalLinks")
  /\ Len(apiLinks) = MaxLinks
  /\ request.args[1] = Ref(LinksAddr(apiLinks))
  /\ request.args[2] = Str(<<"r","a","m","s","a","y">>)
  /\ PropertyOf(apiLinks[1], "link") = Str(<<"$","{","T","E","N","A","N","T","}">>)
  /\ last.result.t = "object"
  /\ heap[heap[last.result.a].elems[1].a].fields["link"] = Str(<<"r","a","m","s","a","y">>)

ServiceDisplayNames ==
  { <<"m","l","f","l","o","w">>, <<"o","p","t","i","m","i","z","e","r">>, <<"v","a","u","l","t">>, <<"s","i","m","-","w","o","r","k","b","e","n","c","h">>, <<"p","l","a","t","f","o","r","m","-","d","o","c","s">>,
    <<"a","i","-","w","o","r","k","b","e","n","c","h">> }

\* C7: generateAllServiceUrls returns, for every tenant, a mapping with
\* exactly 6 entries keyed by the display names, each value being
\* generateServiceUrl of that entry's identifier; for a truthy tenant no
\* value is null and no warning is written.
C7_AllServiceUrls ==
  JustCalled("generateAllServiceUrls") =>
    LET tenant == request.args[1]
        domain == request.args[2]
    IN /\ ~last.threw
       /\ last.result.t = "urls"
       /\ DOMAIN last.result.m = ServiceDisplayNames
       /\ Cardinality(DOMAIN last.result.m) = 6
       /\ \A i \in 1..Len(SERVICE_CONFIG) :
            last.result.m[SERVICE_CONFIG[i].name] =
              generateServiceUrl(Str(SERVICE_CONFIG[i].key), tenant, domain).result
       /\ Truthy(tenant) =>
            /\ \A k \in DOMAIN last.result.m : IsString(last.result.m[k])
            /\ ~last.warned

C7_Witness ==
  /\ Called("generateAllServiceUrls")
  /\ request.args = <<Str(<<"r","a","m","s","a","y">>), Str(<<"c","l","o","u","d","-","t","m","p",".","p","h","y","s","i","c","s","x",".","a","i">>)>>
  /\ last.result.m[<<"m","l","f","l","o","w">>] = Str(<<"h","t","t","p","s",":","/","/","r","a","m","s","a","y","-","m","l","f","l","o","w",".","c","l","o","u","d","-","t","m","p",".","p","h","y","s","i","c","s","x",".","a","i","/">>)
  /\ last.result.m[<<"a","i","-","w","o","r","k","b","e","n","c","h">>] =
       Str(<<"h","t","t","p","s",":","/","/","r","a","m","s","a","y",".","c","l","o","u","d","-","t","m","p",".","p","h","y","s","i","c","s","x",".","a","i","/","p","l","a","t","f","o","r","m","-","d","o","c","u","m","e","n","t","a","t","i","o","n","/","a","i","_","w","o","r","k","b","e","n","c","h","/","i","n","d","e","x",".","h","t","m","l">>)

PureOperations ==
  {"generateServiceUrl", "generateAllServiceUrls", "processExternalLink",
   "processExternalLinks"}

DomainArg == request.args[Len(request.args)]

\* the same call made again, possibly under another hostname, gives the
\* same outcome
SameOutcomeAgain ==
  (last.called /\ last'.called) =>
    (last'.value = last.value /\ last'.threw = last.threw)

\* C8 as stated: generateServiceUrl, generateAllServiceUrls,
\* processExternalLink and processExternalLinks are pure functions of their
\* arguments: two calls with the same arguments under two different
\* ambient hostnames return the same result.
C8_PureOfArguments ==
  [][request.op \in PureOperations => SameOutcomeAgain]_vars

\* C8 as amended: the four operations return the same result under two
\* different ambient hostnames, and do not read the hostname, whenever the
\* domain argument is truthy.
C8_PureGivenDomain ==
  [][(request.op \in PureOperations /\ Truthy(DomainArg)) =>
       (SameOutcomeAgain /\ (last'.called => ~last'.readHost))]_vars

C8_Witness ==
  /\ Called("generateServiceUrl")
  /\ request.args = <<Str(<<"M","L","F","L","O","W">>), Str(<<"r","a","m","s","a","y">>), Str(<<"c","l","o","u","d","-","t","m","p",".","p","h","y","s","i","c","s","x",".","a","i">>)>>
  /\ last.result = Str(<<"h","t","t","p","s",":","/","/","r","a","m","s","a","y","-","m","l","f","l","o","w",".","c","l","o","u","d","-","t","m","p",".","p","h","y","s","i","c","s","x",".","a","i","/">>)
  /\ last.host = <<"d","e","m","o","-","d","e","v","-","k","u","b","e","f","l","o","w",".","e","x","a","m","p","l","e",".","c","o","m">>
  /\ locationHostname = <<"r","a","m","s","a","y",".","c","l","o","u","d","-","t","m","p",".","p","h","y","s","i","c","s","x",".","a","i">>

\* C9: extractDomainFromHostname returns the default domain when hostname
\* is not a non-empty string or has no dot, and otherwise the part after the
\* first dot; never the whole hostname; and when extractTenantFromHostname
\* is non-null the domain is the non-empty remainder after the tenant label.
C9_DomainOfHostname ==
  Called("extractDomainFromHostname") =>
    LET hostname == request.args[1]
    IN /\ ~last.threw
       /\ IF ~NonEmptyString(hostname) \/ FirstOccurrence(hostname.s, <<".">>) = 0
          THEN last.result = Str(DEFAULT_DOMAIN)
          ELSE last.result = Str(AfterFirstDot(hostname.s))
       /\ last.result # hostname
       /\ extractTenantFromHostname(hostname) # Null =>
            /\ last.result.s # <<>>
            /\ \E n \in 1..Len(hostname.s) :
                 /\ \A i \in 1..n : hostname.s[i] # "."
                 /\ hostname.s = SubSeq(hostname.s, 1, n) \o <<".">> \o last.result.s
                 /\ LET tenant == extractTenantFromHostname(hostname).s
                    IN SubSeq(hostname.s, 1, Len(tenant)) = tenant

C9_Witness ==
  /\ Called("extractDomainFromHostname")
  /\ request.args = <<Str(<<"d","e","m","o","-","d","e","v","-","k","u","b","e","f","l","o","w",".","r","a","m","s","a","y",".","a","-","k","u","b","e","f","l","o","w","-","k","u","b","e","f","l","o","w">>)>>
  /\ last.result = Str(<<"r","a","m","s","a","y",".","a","-","k","u","b","e","f","l","o","w","-","k","u","b","e","f","l","o","w">>)

\* C10: processExternalLink returns its link argument itself whenever link
\* or tenant is falsy; processExternalLinks returns its list argument itself,
\* without reading the ambient hostname, whenever list is not an array or
\* tenant is falsy.
C10_Passthrough ==
  /\ Called("processExternalLink") =>
       ((~Truthy(request.args[1]) \/ ~Truthy(request.args[2])) =>
          (~last.threw /\ last.result = request.args[1]))
  /\ Called("processExternalLinks") =>
       ((~IsArray(InputHeap(apiLinks), request.args[1]) \/ ~Truthy(request.args[2])) =>
          /\ ~last.threw
          /\ last.result = request.args[1]
          /\ ~last.readHost
          /\ heap = InputHeap(apiLinks))

C10_Witness ==
  /\ Called("processExternalLinks")
  /\ Len(apiLinks) = MaxLinks
  /\ request.args = <<Ref(LinksAddr(apiLinks)), Str(<<>>), Null>>
  /\ last.result = Ref(LinksAddr(apiLinks))
====
